---- MODULE Spec2Model ----
(***************************************************************************)
(* A model of the turn-bounded tool-calling orchestrator (src/main.py,     *)
(* chat_loop and _handle_command), the two provider adapters               *)
(* (src/llms/anthropic_client.py, src/llms/gemini_client.py) and the       *)
(* session store (src/session.py).                                         *)
(*                                                                         *)
(* Python values are modelled as follows.  A dict is a record.  A list is  *)
(* a sequence.  A value that may be a str, a list or None is tagged:       *)
(* [str |-> s], [list |-> seq], [none |-> TRUE]; a field that is always a  *)
(* str ("role", "type", "name", "id", ...) is a plain string.              *)
(*                                                                         *)
(* chat_loop is one process; its position is pc.  Every await of an        *)
(* external call (generate_response, call_tool) is a position where the    *)
(* call is in flight, and the action that leaves it carries the call's     *)
(* outcome (a reply, or an exception) and runs the code up to the next     *)
(* await.                                                                  *)
(***************************************************************************)
EXTENDS Naturals, Sequences, FiniteSets, TLC

VARIABLES
    provider,           \* main.py:212  "anthropic" | "gemini"
    messages,           \* main.py:211  the conversation history
    pc,                 \* position of chat_loop
    response,           \* main.py:247  result of the first generate_response
    tool_calls,         \* main.py:263
    tc_idx,             \* main.py:281  position of the for loop over tool_calls
    tool_result_parts,  \* main.py:280
    followup,           \* main.py:304  result of the second generate_response
    json_files,         \* sessions/<name>.json, by name
    md_files,           \* sessions/<name>.md, by name
    save_name,          \* main.py:126  name of the /save in progress
    summary_messages,   \* session.py:47  what save_summary sends to the model,
                        \* <<>> outside save_summary
    \* history variables, read by the properties only
    turns,              \* human text inputs accepted so far
    turn_start,         \* messages when the current turn's input was read
    exec_log,           \* call_tool invocations issued in the current turn
    gen_calls,          \* generate_response calls issued in the current turn
    outcome,            \* how the last finished turn or command ended
    blocks,             \* content blocks the vendor has returned so far
    commands,           \* /save and /resume <name> commands accepted so far
    call_outcomes,      \* per call_tool of the current turn that ended: ""
                        \* when it returned, the cause when it raised
    resume_arg,         \* the name given to the last /resume
    in_flight,          \* generate_response and call_tool calls that were
                        \* issued and have neither returned nor raised
    \* HexstrikeMCPClient, mcp/client.py
    session,            \* client.py:15  TRUE when self.session is not None
    tools_cache,        \* client.py:17  self._tools_cache
    \* history variables of the client, read by the properties only
    mcp_op,             \* the last method of the client that was called
    mcp_ret,            \* what that call returned, or the error it raised
    mcp_steps,          \* calls of the client's methods so far
    queries,            \* session.list_tools() requests since the last connect
    fetches,            \* those of them that returned a tool list
    listed,             \* list_tools calls that returned since the last connect
    first_listed,       \* the first snapshot list_tools returned since the
                        \* last connect, None while there is none
    \* GeminiClient._convert_schema applied to a schema, gemini_client.py:16
    input_schema,       \* the schema handed to the first application
    cleaned,            \* what the latest application returned
    cleaned_once,       \* what the first application returned
    passes              \* applications so far, each to the result of the last

vars == <<provider, messages, pc, response, tool_calls, tc_idx,
          tool_result_parts, followup, json_files, md_files, save_name,
          summary_messages,
          turns, turn_start, exec_log, gen_calls, outcome, blocks, commands,
          call_outcomes, resume_arg, in_flight,
          session, tools_cache, mcp_op, mcp_ret, mcp_steps, queries, fetches,
          listed, first_listed, input_schema, cleaned, cleaned_once, passes>>

mcp_vars == <<session, tools_cache, mcp_op, mcp_ret, mcp_steps, queries,
              fetches, listed, first_listed>>
mcp_rest == <<session, mcp_op, mcp_ret, mcp_steps, queries, fetches, listed,
              first_listed>>
schema_vars == <<input_schema, cleaned, cleaned_once, passes>>
loop_vars == <<response, tool_calls, tc_idx, tool_result_parts, followup>>
file_vars == <<json_files, md_files, save_name, summary_messages>>
hist_vars == <<turns, turn_start, exec_log, gen_calls, outcome, blocks, commands,
               call_outcomes, resume_arg, in_flight>>

-----------------------------------------------------------------------------
(* Bounds of the model. *)

\* human text inputs accepted in one behaviour
MaxTurns == 2
\* content blocks the vendor returns in one behaviour, over all its replies
MaxBlocks == 3
\* human text inputs accepted in one behaviour where every call in flight
\* ends (LiveSpec)
LiveTurns == 1
\* where the session commands are enabled too (SessionSpec): the inputs
\* (lines of text, /save and /resume <name> commands) accepted in one
\* behaviour, and the content blocks the vendor returns in it
MaxInputs == 2
SessionBlocks == 2
\* calls of the MCP client's methods in one behaviour of McpSpec
MaxMcpOps == 5
\* nesting of properties / items in the schemas given to _convert_schema
MaxDepth == 2
\* applications of _convert_schema to one schema, each to the last result
MaxPasses == 3

-----------------------------------------------------------------------------
(* Python values. *)

None == [none |-> TRUE]
Str(s) == [str |-> s]
List(l) == [list |-> l]

IsStr(v) == DOMAIN v = {"str"}
Dict(d) == [dict |-> d]
Bool(b) == [bool |-> b]
IsDict(v) == "dict" \in DOMAIN v
IsList(v) == DOMAIN v = {"list"}

\* Python truthiness of an optional string: None and "" are falsy.
Truthy(v) == IsStr(v) /\ v.str # ""

RECURSIVE Join(_, _)
\* sep.join(parts)
Join(sep, parts) ==
    IF parts = <<>> THEN ""
    ELSE IF Len(parts) = 1 THEN parts[1]
    ELSE parts[1] \o sep \o Join(sep, Tail(parts))

-----------------------------------------------------------------------------
(* What the collaborators may answer. *)

Providers == {"anthropic", "gemini"}

UserTexts == {"scan port 80"}

ToolArgs == [host |-> "pterodactyl.htb"]

\* content blocks of an Anthropic reply (response.content)
AnthropicBlocks ==
    { [type |-> "text", text |-> "t"],
      [type |-> "tool_use", id |-> "tu1", name |-> "nmap", input |-> ToolArgs],
      [type |-> "tool_use", id |-> "tu2", name |-> "http_probe", input |-> ToolArgs] }

\* parts of a Gemini reply (response.candidates[0].content.parts); a part
\* holds a text or a function call
GeminiParts ==
    { [text |-> "t"],
      [function_call |-> [name |-> "nmap", args |-> ToolArgs]],
      [function_call |-> [name |-> "http_probe", args |-> ToolArgs]] }

SeqsUpTo(S, n) == UNION { [1..k -> S] : k \in 0..n }

\* the raw vendor replies of a provider, of at most n blocks
Replies(p, n) ==
    IF p = "anthropic" THEN SeqsUpTo(AnthropicBlocks, n)
    ELSE SeqsUpTo(GeminiParts, n)

\* the text a tool returns (mcp/client.py call_tool joins the text blocks)
ToolOutput(name) == name \o " ok"

\* causes of a failing call_tool
ToolErrors == {"timeout"}

\* causes of a failing generate_response
LlmErrors == {"rate limit"}

-----------------------------------------------------------------------------
(* AnthropicClient, src/llms/anthropic_client.py *)

RECURSIVE AnthropicTextParts(_)
\* text_parts of generate_response: the text of every text block, in order
AnthropicTextParts(content) ==
    IF content = <<>> THEN <<>>
    ELSE (IF Head(content).type = "text" THEN <<Head(content).text>> ELSE <<>>)
         \o AnthropicTextParts(Tail(content))

RECURSIVE AnthropicToolCalls(_)
\* tool_calls of generate_response: one entry per tool_use block, in order
AnthropicToolCalls(content) ==
    IF content = <<>> THEN <<>>
    ELSE (IF Head(content).type = "tool_use"
          THEN <<[id |-> Head(content).id, name |-> Head(content).name,
                  arguments |-> Head(content).input]>>
          ELSE <<>>)
         \o AnthropicToolCalls(Tail(content))

\* generate_response, from the vendor's reply on (the request is external)
AnthropicGenerateResponse(raw) ==
    LET text_parts == AnthropicTextParts(raw)
    IN  [text |-> IF text_parts # <<>> THEN Str(Join("\n", text_parts)) ELSE None,
         tool_calls |-> AnthropicToolCalls(raw),
         raw |-> raw]

AnthropicMakeToolResultMessage(tool_call_id, result) ==
    [type |-> "tool_result", tool_use_id |-> tool_call_id, content |-> Str(result)]

RECURSIVE AnthropicContent(_)
\* the content list built by make_assistant_message
AnthropicContent(content) ==
    IF content = <<>> THEN <<>>
    ELSE (IF Head(content).type = "text"
          THEN <<[type |-> "text", text |-> Head(content).text]>>
          ELSE IF Head(content).type = "tool_use"
          THEN <<[type |-> "tool_use", id |-> Head(content).id,
                  name |-> Head(content).name, input |-> Head(content).input]>>
          ELSE <<>>)
         \o AnthropicContent(Tail(content))

AnthropicMakeAssistantMessage(resp) ==
    [role |-> "assistant", content |-> List(AnthropicContent(resp.raw))]

-----------------------------------------------------------------------------
(* GeminiClient, src/llms/gemini_client.py *)

\* part.text is set and not empty
GeminiHasText(part) == "text" \in DOMAIN part /\ part.text # ""

RECURSIVE GeminiTextParts(_)
GeminiTextParts(parts) ==
    IF parts = <<>> THEN <<>>
    ELSE (IF GeminiHasText(Head(parts)) THEN <<Head(parts).text>> ELSE <<>>)
         \o GeminiTextParts(Tail(parts))

RECURSIVE GeminiToolCalls(_)
\* the call id is the function's name: the vendor has no call id
GeminiToolCalls(parts) ==
    IF parts = <<>> THEN <<>>
    ELSE (IF ~GeminiHasText(Head(parts)) /\ "function_call" \in DOMAIN Head(parts)
          THEN <<[id |-> Head(parts).function_call.name,
                  name |-> Head(parts).function_call.name,
                  arguments |-> Head(parts).function_call.args]>>
          ELSE <<>>)
         \o GeminiToolCalls(Tail(parts))

GeminiGenerateResponse(raw) ==
    LET text_parts == GeminiTextParts(raw)
    IN  [text |-> IF text_parts # <<>> THEN Str(Join("\n", text_parts)) ELSE None,
         tool_calls |-> GeminiToolCalls(raw),
         raw |-> raw]

GeminiMakeAssistantMessage(resp) ==
    [role |-> "assistant",
     content |-> List(
        (IF Truthy(resp.text) THEN <<[text |-> resp.text.str]>> ELSE <<>>)
        \o [i \in 1..Len(resp.tool_calls) |->
              [function_call |-> [name |-> resp.tool_calls[i].name,
                                  args |-> resp.tool_calls[i].arguments]]])]

GeminiMakeToolResultMessage(tool_name, result) ==
    [role |-> "user",
     content |-> List(<<[function_response |->
                            [name |-> tool_name,
                             response |-> [result |-> result]]]>>)]

-----------------------------------------------------------------------------
(* The adapter chat_loop dispatches to, by provider tag. *)

\* llm_client.generate_response
GenerateResponse(p, raw) ==
    IF p = "anthropic" THEN AnthropicGenerateResponse(raw)
    ELSE GeminiGenerateResponse(raw)

\* llm_client.parse_tool_calls: response.get("tool_calls", [])
ParseToolCalls(resp) == resp.tool_calls

\* main.py:267-270, 274-277, 314-317
MakeAssistantMessage(p, resp) ==
    IF p = "anthropic" THEN AnthropicMakeAssistantMessage(resp)
    ELSE GeminiMakeAssistantMessage(resp)

-----------------------------------------------------------------------------
(* The session store, src/session.py *)

\* default_session_name(): "session-" and the time of the call
DefaultSessionName == "session-2026-11-03-120000"

\* datetime.now().isoformat()
Timestamp == "2026-11-03T12:00:00"

\* the default name an earlier run of the program saved under
OldSessionName == "session-2026-11-02-090000"

\* the names of the sessions directory
SessionNames == {"s1", OldSessionName, DefaultSessionName}

\* the keys whose value is always a str
StrKeys == {"role", "type", "text", "id", "name", "tool_use_id", "result",
            "host", "provider", "timestamp"}

\* JSON values: what json.dump writes and json.load reads
JString(s) == [j |-> "string", v |-> s]
JArray(a) == [j |-> "array", v |-> a]
JObject(o) == [j |-> "object", v |-> o]

RECURSIVE JsonDump(_, _)
\* json.dump of the value v held under key k: a str becomes a JSON string, a
\* list a JSON array, a dict a JSON object.  (default=str is never called:
\* the history holds only str, list and dict.)
JsonDump(k, v) ==
    IF k \in StrKeys THEN JString(v)
    ELSE IF k = "messages" THEN JArray([i \in 1..Len(v) |-> JsonDump("", v[i])])
    ELSE IF k = "content"
    THEN (IF IsStr(v) THEN JString(v.str)
          ELSE JArray([i \in 1..Len(v.list) |-> JsonDump("", v.list[i])]))
    ELSE JObject([f \in DOMAIN v |-> JsonDump(f, v[f])])

RECURSIVE JsonLoad(_, _)
\* json.load of the JSON value jv found under key k: a JSON string becomes a
\* str, an array a list, an object a dict
JsonLoad(k, jv) ==
    IF jv.j = "string" THEN (IF k \in StrKeys THEN jv.v ELSE Str(jv.v))
    ELSE IF jv.j = "array"
    THEN (IF k = "messages" THEN [i \in 1..Len(jv.v) |-> JsonLoad("", jv.v[i])]
          ELSE List([i \in 1..Len(jv.v) |-> JsonLoad("", jv.v[i])]))
    ELSE [f \in DOMAIN jv.v |-> JsonLoad(f, jv.v[f])]

\* save_session_json writing the text of each message only: a message whose
\* content is a list of parts is written as the str of that list
save_session_json_text_only(msgs, prov) ==
    JsonDump("", [timestamp |-> Timestamp, provider |-> prov,
                  messages |-> [i \in 1..Len(msgs) |->
                      [role |-> msgs[i].role,
                       content |-> IF IsStr(msgs[i].content) THEN msgs[i].content
                                   ELSE Str("[...]")]]])

\* save_session_json: the content written to filepath
save_session_json(msgs, prov) ==
    JsonDump("", [timestamp |-> Timestamp, provider |-> prov, messages |-> msgs])

\* load_session_json: (messages, provider) of the file's content
load_session_json(file) ==
    LET data == JsonLoad("", file)
    IN  <<data.messages, data.provider>>

\* os.path.exists
Exists(files, name) == name \in DOMAIN files /\ files[name] # None

\* _auto_save without the test of main.py:105: a record is written for an
\* empty history too
AutoSaveAlways(files, msgs, prov) ==
    [files EXCEPT ![DefaultSessionName] = save_session_json(msgs, prov)]

\* _auto_save: the structured records after it ran
AutoSave(files, msgs, prov) ==
    IF msgs = <<>> THEN files
    ELSE [files EXCEPT ![DefaultSessionName] = save_session_json(msgs, prov)]

-----------------------------------------------------------------------------
(* HexstrikeMCPClient, src/mcp/client.py *)

\* client.py:36, 55: the message of the RuntimeError
NotConnected == "Not connected - call connect() first"

\* client.py:43-46: the schema given to a tool that advertises none
DefaultInputSchema ==
    ("type" :> Str("object")) @@ ("properties" :> Dict(<<>>))

\* the tools the server may advertise (result.tools): one with a description
\* and a closed schema as pydantic emits it, one with neither
NmapTool ==
    [name |-> "nmap",
     description |-> Str("port scanner"),
     inputSchema |->
         Dict(("type" :> Str("object"))
              @@ ("properties" :>
                      Dict(("host" :> Dict("type" :> Str("string")))
                           @@ ("ports" :>
                                   Dict(("type" :> Str("array"))
                                        @@ ("items" :>
                                                Dict(("type" :> Str("integer"))
                                                     @@ ("additionalProperties"
                                                             :> Bool(FALSE))))))))
              @@ ("required" :> List(<<"host">>))
              @@ ("additionalProperties" :> Bool(FALSE))
              @@ ("$schema" :> Str("http://json-schema.org/draft-07/schema#")))]

ProbeTool ==
    [name |-> "http_probe", description |-> None, inputSchema |-> None]

\* what session.list_tools() may answer: the server's tool list
ServerListings == { <<>>, <<NmapTool>>, <<NmapTool, ProbeTool>> }

\* how a request to the server may fail
ServerErrors == {"connection closed"}

\* client.py:40-47: the plain dict of one tool
ToolSpec(tool) ==
    [name |-> tool.name,
     description |-> IF tool.description = None THEN "" ELSE tool.description.str,
     inputSchema |-> IF tool.inputSchema = None THEN DefaultInputSchema
                     ELSE IF DOMAIN tool.inputSchema.dict = {}
                     THEN DefaultInputSchema
                     ELSE tool.inputSchema.dict]

\* client.py:39-49: the list comprehension over result.tools
Snapshot(tools) == [i \in 1..Len(tools) |-> ToolSpec(tools[i])]

\* the call op of the client ended with ret
McpCalled(op, ret) ==
    /\ mcp_op' = op
    /\ mcp_ret' = ret
    /\ mcp_steps' = mcp_steps + 1

Returned(v) == [ok |-> v]
Raised(e) == [raised |-> e]

chat_vars == <<provider, messages, pc, loop_vars, file_vars, hist_vars,
               schema_vars>>

\* client.py:19-28: connect().  stdio_client may fail to start the server
\* (self.session is not assigned), or initialize() may fail after
\* self.session was assigned.
connect(result) ==
    /\ \/ /\ result = "spawn_failed"
          /\ McpCalled("connect", Raised(result))
          /\ UNCHANGED <<session, queries, fetches, listed, first_listed>>
       \/ /\ result \in {"ok", "initialize_failed"}
          /\ session' = TRUE
          /\ McpCalled("connect",
                       IF result = "ok" THEN Returned(None) ELSE Raised(result))
          /\ queries' = 0
          /\ fetches' = 0
          /\ listed' = 0
          /\ first_listed' = None
    /\ UNCHANGED <<tools_cache, chat_vars>>

\* list_tools with client.py:32 testing the cache for truth (if
\* self._tools_cache:) instead of against None: an empty snapshot is fetched
\* again
list_tools_truthy_cache(reply) ==
    /\ IF tools_cache # None /\ tools_cache.list # <<>>
       THEN /\ McpCalled("list_tools", Returned(tools_cache))
            /\ listed' = listed + 1
            /\ first_listed' =
                   IF first_listed = None THEN tools_cache ELSE first_listed
            /\ UNCHANGED <<tools_cache, queries, fetches>>
       ELSE IF ~session
       THEN /\ McpCalled("list_tools", Raised(NotConnected))
            /\ UNCHANGED <<tools_cache, queries, fetches, listed, first_listed>>
       ELSE IF "error" \in DOMAIN reply
       THEN /\ McpCalled("list_tools", Raised(reply.error))
            /\ queries' = queries + 1
            /\ UNCHANGED <<tools_cache, fetches, listed, first_listed>>
       ELSE /\ tools_cache' = List(Snapshot(reply.tools))
            /\ McpCalled("list_tools", Returned(tools_cache'))
            /\ queries' = queries + 1
            /\ fetches' = fetches + 1
            /\ listed' = listed + 1
            /\ first_listed' =
                   IF first_listed = None THEN tools_cache' ELSE first_listed
    /\ UNCHANGED <<session, chat_vars>>

\* client.py:30-50: list_tools(); reply is what the server answers when it is
\* asked
list_tools(reply) ==
    /\ IF tools_cache # None
       THEN /\ McpCalled("list_tools", Returned(tools_cache))
            /\ listed' = listed + 1
            /\ first_listed' =
                   IF first_listed = None THEN tools_cache ELSE first_listed
            /\ UNCHANGED <<tools_cache, queries, fetches>>
       ELSE IF ~session
       THEN /\ McpCalled("list_tools", Raised(NotConnected))
            /\ UNCHANGED <<tools_cache, queries, fetches, listed, first_listed>>
       ELSE IF "error" \in DOMAIN reply
       THEN /\ McpCalled("list_tools", Raised(reply.error))
            /\ queries' = queries + 1
            /\ UNCHANGED <<tools_cache, fetches, listed, first_listed>>
       ELSE /\ tools_cache' = List(Snapshot(reply.tools))
            /\ McpCalled("list_tools", Returned(tools_cache'))
            /\ queries' = queries + 1
            /\ fetches' = fetches + 1
            /\ listed' = listed + 1
            /\ first_listed' =
                   IF first_listed = None THEN tools_cache' ELSE first_listed
    /\ UNCHANGED <<session, chat_vars>>

\* client.py:52-65: call_tool(name, arguments); reply is what the server
\* answers when it is asked
call_tool(name, reply) ==
    /\ IF ~session
       THEN McpCalled("call_tool", Raised(NotConnected))
       ELSE IF "error" \in DOMAIN reply
       THEN McpCalled("call_tool", Raised(reply.error))
       ELSE McpCalled("call_tool", Returned(Str(ToolOutput(name))))
    /\ UNCHANGED <<session, tools_cache, queries, fetches, listed,
                   first_listed, chat_vars>>

\* disconnect without client.py:71: the cache outlives the session
disconnect_keeps_cache(result) ==
    /\ IF result = "ok"
       THEN /\ session' = FALSE
            /\ first_listed' = None
            /\ McpCalled("disconnect", Returned(None))
            /\ UNCHANGED tools_cache
       ELSE /\ McpCalled("disconnect", Raised(result))
            /\ UNCHANGED <<session, tools_cache, first_listed>>
    /\ UNCHANGED <<queries, fetches, listed, chat_vars>>

\* client.py:67-71: disconnect().  When aclose() raises, lines 70-71 are not
\* reached.
disconnect(result) ==
    /\ IF result = "ok"
       THEN /\ session' = FALSE
            /\ tools_cache' = None
            /\ first_listed' = None
            /\ McpCalled("disconnect", Returned(None))
       ELSE /\ McpCalled("disconnect", Raised(result))
            /\ UNCHANGED <<session, tools_cache, first_listed>>
    /\ UNCHANGED <<queries, fetches, listed, chat_vars>>

\* what the server may answer to a request
ServerReplies ==
    {[tools |-> l] : l \in ServerListings} \cup {[error |-> e] : e \in ServerErrors}

-----------------------------------------------------------------------------
(* GeminiClient._convert_schema, src/llms/gemini_client.py:15-33.  A schema *)
(* is a dict: a function from its keys to tagged values, Str, List, Bool,   *)
(* or Dict for a nested dict.                                               *)

\* gemini_client.py:22
UNSUPPORTED == {"$schema", "additionalProperties"}

RECURSIVE convert_schema_properties_only(_)
\* _convert_schema without lines 30-31: the schemas of properties are
\* cleaned, an item schema is not
convert_schema_properties_only(schema) ==
    LET stripped == [k \in DOMAIN schema \ UNSUPPORTED |-> schema[k]]
    IN  IF "properties" \in DOMAIN stripped
        THEN [stripped EXCEPT !["properties"] =
                 Dict([name \in DOMAIN stripped["properties"].dict |->
                          Dict(convert_schema_properties_only(
                              stripped["properties"].dict[name].dict))])]
        ELSE stripped

RECURSIVE convert_schema_one_key(_)
\* _convert_schema dropping one unsupported key per dict and call ($schema
\* when present, else additionalProperties) instead of all of them
convert_schema_one_key(schema) ==
    LET drop == IF "$schema" \in DOMAIN schema THEN {"$schema"}
                ELSE {"additionalProperties"}
        stripped == [k \in DOMAIN schema \ drop |-> schema[k]]
        with_properties ==
            IF "properties" \in DOMAIN stripped
            THEN [stripped EXCEPT !["properties"] =
                     Dict([name \in DOMAIN stripped["properties"].dict |->
                              Dict(convert_schema_one_key(
                                  stripped["properties"].dict[name].dict))])]
            ELSE stripped
    IN  IF "items" \in DOMAIN with_properties /\ IsDict(with_properties["items"])
        THEN [with_properties EXCEPT !["items"] =
                 Dict(convert_schema_one_key(with_properties["items"].dict))]
        ELSE with_properties

RECURSIVE convert_schema(_)
\* gemini_client.py:16-33.  The schemas given to it hold a dict under
\* "properties", with a dict per property.
convert_schema(schema) ==
    LET stripped == [k \in DOMAIN schema \ UNSUPPORTED |-> schema[k]]
        with_properties ==
            IF "properties" \in DOMAIN stripped
            THEN [stripped EXCEPT !["properties"] =
                     Dict([name \in DOMAIN stripped["properties"].dict |->
                              Dict(convert_schema(
                                  stripped["properties"].dict[name].dict))])]
            ELSE stripped
    IN  IF "items" \in DOMAIN with_properties /\ IsDict(with_properties["items"])
        THEN [with_properties EXCEPT !["items"] =
                 Dict(convert_schema(with_properties["items"].dict))]
        ELSE with_properties


\* _convert_schema cleaning input_schema where it is (the unsupported keys
\* popped out of it, nested schemas stored back into it) instead of
\* building the new dict of line 23: the argument ends as the result
convert_schema_argument_in_place(schema) == convert_schema(schema)

RECURSIVE convert_schema_argument(_)
\* gemini_client.py:16-33: the dict given as input_schema, as the
\* call leaves it.
\* Line 23 reads it into cleaned, a new dict, and lines 26 and 31 store into
\* cleaned.  The dicts under "properties" and under "items" are
\* its own: the calls of lines 27 and 31 receive them.
convert_schema_argument(schema) ==
    LET cleaned_keys == DOMAIN schema \ UNSUPPORTED
        after_properties ==
            IF "properties" \in cleaned_keys
            THEN [schema EXCEPT !["properties"] =
                     Dict([name \in DOMAIN schema["properties"].dict |->
                              Dict(convert_schema_argument(
                                  schema["properties"].dict[name].dict))])]
            ELSE schema
    IN  IF "items" \in cleaned_keys /\ IsDict(schema["items"])
        THEN [after_properties EXCEPT !["items"] =
                 Dict(convert_schema_argument(schema["items"].dict))]
        ELSE after_properties

\* anthropic_client.py:15-27 and gemini_client.py:36-47: the list mcp_tools
\* as format_tools leaves it.  The Anthropic adapter stores each tool's name,
\* description and inputSchema in a new dict; the Gemini adapter hands the
\* tool's own inputSchema dict to _convert_schema (line 40: an entry of the
\* snapshot always has the key, so the default is not used)
format_tools_argument(p, mcp_tools) ==
    IF p = "anthropic" THEN mcp_tools
    ELSE [i \in 1..Len(mcp_tools) |->
             [mcp_tools[i] EXCEPT
                 !.inputSchema = convert_schema_argument(mcp_tools[i].inputSchema)]]

\* main.py:248, 305 and session.py:49-51: generate_response is handed tools,
\* the list list_tools returned at main.py:206, which is the registry's
\* cached list itself (client.py:38, 50); anthropic_client.py:35 and
\* gemini_client.py:55 pass it to format_tools
ToolsFormatted ==
    /\ tools_cache' = List(format_tools_argument(provider, tools_cache.list))
    /\ UNCHANGED mcp_rest

-----------------------------------------------------------------------------
(* chat_loop, src/main.py:201-320 *)

UserMessage(text) == [role |-> "user", content |-> Str(text)]

\* the summaries on disk when the process starts: the operator kept the
\* summary of session s1 and not its structured record, and an earlier run
\* wrote a summary with the record it saved
InitialSummaries ==
    [n \in SessionNames |->
        IF n = "s1" THEN Str("## Findings")
        ELSE IF n = OldSessionName THEN Str("## Earlier")
        ELSE None]

\* the structured records on disk when the process starts: an earlier run,
\* with the Anthropic provider, saved a one-turn conversation with /save
InitialRecords ==
    [n \in SessionNames |->
        IF n = OldSessionName
        THEN save_session_json(
                 << UserMessage("scan port 80"),
                    AnthropicMakeAssistantMessage(AnthropicGenerateResponse(
                        << [type |-> "text", text |-> "t"] >>)) >>,
                 "anthropic")
        ELSE None]

ChatStart ==
    /\ provider \in Providers
    /\ messages = <<>>
    /\ pc = "input"
    /\ response = None
    /\ tool_calls = <<>>
    /\ tc_idx = 0
    /\ tool_result_parts = <<>>
    /\ followup = None
    /\ json_files = InitialRecords
    /\ md_files = InitialSummaries
    /\ save_name = ""
    /\ summary_messages = <<>>
    /\ turns = 0
    /\ turn_start = <<>>
    /\ exec_log = <<>>
    /\ gen_calls = 0
    /\ outcome = "none"
    /\ blocks = 0
    /\ commands = 0
    /\ call_outcomes = <<>>
    /\ resume_arg = ""
    /\ in_flight = 0

\* main.py:343 and 206: main has connected the client and chat_loop has
\* listed the tools, which the server advertised as nmap and http_probe
Init ==
    /\ ChatStart
    /\ session = TRUE
    /\ tools_cache = List(Snapshot(<<NmapTool, ProbeTool>>))
    /\ mcp_op = "list_tools"
    /\ mcp_ret = Returned(tools_cache)
    /\ mcp_steps = 0
    /\ queries = 1
    /\ fetches = 1
    /\ listed = 1
    /\ first_listed = tools_cache
    /\ input_schema = None
    /\ cleaned = None
    /\ cleaned_once = None
    /\ passes = 0

\* client.py:9-17: the client as constructed, before main connects it
McpInit ==
    /\ ChatStart
    /\ session = FALSE
    /\ tools_cache = None
    /\ mcp_op = "none"
    /\ mcp_ret = Returned(None)
    /\ mcp_steps = 0
    /\ queries = 0
    /\ fetches = 0
    /\ listed = 0
    /\ first_listed = None
    /\ input_schema = None
    /\ cleaned = None
    /\ cleaned_once = None
    /\ passes = 0

\* main.py:223-226, 228-231: EOF, an interrupt, or the words exit / quit
InputExit ==
    /\ pc = "input"
    /\ json_files' = AutoSave(json_files, messages, provider)
    /\ pc' = "exited"
    /\ UNCHANGED <<mcp_vars, schema_vars, provider, messages, loop_vars, md_files, save_name,
                   summary_messages, hist_vars>>

\* main.py:232-233: an empty line
InputEmpty ==
    /\ pc = "input"
    /\ UNCHANGED vars

\* InputText with the tool calls the last follow-up left in the history
\* picked up by the next turn: their execution starts before the model is
\* asked
InputTextRunsLatent(text) ==
    /\ pc = "input"
    /\ messages' = Append(messages, UserMessage(text))
    /\ turns' = turns + 1
    /\ turn_start' = messages
    /\ outcome' = "running"
    /\ call_outcomes' = <<>>
    /\ in_flight' = in_flight + 1
    /\ IF followup # None /\ ParseToolCalls(followup) # <<>>
       THEN /\ tool_calls' = ParseToolCalls(followup)
            /\ tool_result_parts' = <<>>
            /\ tc_idx' = 1
            /\ exec_log' = <<[name |-> tool_calls'[1].name,
                              arguments |-> tool_calls'[1].arguments]>>
            /\ gen_calls' = 0
            /\ pc' = "tool"
       ELSE /\ pc' = "first"
            /\ exec_log' = <<>>
            /\ gen_calls' = 1
            /\ UNCHANGED <<tool_calls, tc_idx, tool_result_parts>>
    /\ UNCHANGED <<mcp_vars, schema_vars, provider, response, followup,
                   file_vars, blocks, commands, resume_arg>>

\* main.py:242-249: a line of text; the first generate_response is issued
InputText(text) ==
    /\ pc = "input"
    /\ messages' = Append(messages, UserMessage(text))
    /\ pc' = "first"
    /\ turns' = turns + 1
    /\ turn_start' = messages
    /\ exec_log' = <<>>
    /\ gen_calls' = 1
    /\ outcome' = "running"
    /\ call_outcomes' = <<>>
    /\ in_flight' = in_flight + 1
    /\ ToolsFormatted
    /\ UNCHANGED <<schema_vars, provider, loop_vars, file_vars, blocks, commands, resume_arg>>

\* FirstResponseFails with messages.clear() in place of messages.pop()
FirstResponseFailsClears(e) ==
    /\ pc = "first"
    /\ messages' = <<>>
    /\ pc' = "input"
    /\ outcome' = "first_failed"
    /\ in_flight' = in_flight - 1
    /\ UNCHANGED <<mcp_vars, schema_vars, provider, loop_vars, file_vars, turns,
                   turn_start, exec_log, gen_calls, blocks, commands,
                   call_outcomes, resume_arg>>

\* FirstResponseFails without main.py:252 / 256, messages.pop()
FirstResponseFailsNoPop(e) ==
    /\ pc = "first"
    /\ pc' = "input"
    /\ outcome' = "first_failed"
    /\ in_flight' = in_flight - 1
    /\ UNCHANGED <<mcp_vars, schema_vars, provider, messages, loop_vars, file_vars, turns, turn_start,
                   exec_log, gen_calls, blocks, commands, call_outcomes,
                   resume_arg>>

\* main.py:250-257: the first generate_response raised
FirstResponseFails(e) ==
    /\ pc = "first"
    /\ messages' = SubSeq(messages, 1, Len(messages) - 1)
    /\ pc' = "input"
    /\ outcome' = "first_failed"
    /\ in_flight' = in_flight - 1
    /\ UNCHANGED <<mcp_vars, schema_vars, provider, loop_vars, file_vars, turns, turn_start, exec_log,
                   gen_calls, blocks, commands, call_outcomes, resume_arg>>

\* main.py:284: the call_tool issued for tool call tc
CallIssued(tc) == [name |-> tc.name, arguments |-> tc.arguments]

\* FirstResponse with the calls of the round issued together (a gather over
\* tool_calls) instead of one after the other
FirstResponseFanOut(raw) ==
    /\ pc = "first"
    /\ blocks' = blocks + Len(raw)
    /\ response' = GenerateResponse(provider, raw)
    /\ tool_calls' = ParseToolCalls(response')
    /\ messages' = Append(messages, MakeAssistantMessage(provider, response'))
    /\ in_flight' = in_flight - 1 + Len(tool_calls')
    /\ IF tool_calls' = <<>>
       THEN /\ pc' = "input"
            /\ outcome' = "text"
            /\ UNCHANGED <<tc_idx, tool_result_parts, exec_log>>
       ELSE /\ tool_result_parts' = <<>>
            /\ tc_idx' = 1
            /\ exec_log' = [i \in 1..Len(tool_calls') |-> CallIssued(tool_calls'[i])]
            /\ pc' = "tool"
            /\ UNCHANGED outcome
    /\ UNCHANGED <<mcp_vars, schema_vars, provider, followup, file_vars, turns,
                   turn_start, gen_calls, commands, call_outcomes, resume_arg>>

\* FirstResponse without the continue of main.py:271: after a reply without
\* tool calls the code falls through, appends the assistant message again,
\* runs the empty loop and issues the follow-up generate_response
FirstResponseNoContinue(raw) ==
    /\ pc = "first"
    /\ blocks' = blocks + Len(raw)
    /\ response' = GenerateResponse(provider, raw)
    /\ tool_calls' = ParseToolCalls(response')
    /\ IF tool_calls' = <<>>
       THEN /\ messages' = Append(Append(messages,
                                         MakeAssistantMessage(provider, response')),
                                  MakeAssistantMessage(provider, response'))
            /\ tool_result_parts' = <<>>
            /\ pc' = "followup"
            /\ gen_calls' = gen_calls + 1
            /\ in_flight' = in_flight - 1 + 1
            /\ UNCHANGED <<tc_idx, exec_log>>
       ELSE /\ messages' = Append(messages, MakeAssistantMessage(provider, response'))
            /\ tool_result_parts' = <<>>
            /\ tc_idx' = 1
            /\ exec_log' = Append(exec_log, CallIssued(tool_calls'[1]))
            /\ pc' = "tool"
            /\ in_flight' = in_flight - 1 + 1
            /\ UNCHANGED gen_calls
    /\ UNCHANGED <<mcp_vars, schema_vars, provider, followup, file_vars, turns,
                   turn_start, outcome, commands, call_outcomes, resume_arg>>

\* main.py:259-284: the first generate_response returned
FirstResponse(raw) ==
    /\ pc = "first"
    /\ blocks' = blocks + Len(raw)
    /\ response' = GenerateResponse(provider, raw)
    /\ tool_calls' = ParseToolCalls(response')
    /\ messages' = Append(messages, MakeAssistantMessage(provider, response'))
    /\ IF tool_calls' = <<>>
       THEN /\ pc' = "input"
            /\ outcome' = "text"
            /\ UNCHANGED <<tc_idx, tool_result_parts, exec_log>>
       ELSE /\ tool_result_parts' = <<>>
            /\ tc_idx' = 1
            /\ exec_log' = Append(exec_log, CallIssued(tool_calls'[1]))
            /\ pc' = "tool"
            /\ UNCHANGED outcome
    /\ in_flight' = in_flight - 1 + (IF tool_calls' = <<>> THEN 0 ELSE 1)
    /\ UNCHANGED <<mcp_vars, schema_vars, provider, followup, file_vars, turns, turn_start, gen_calls,
                   commands, call_outcomes, resume_arg>>

\* AfterToolCall with the result entry built for the first tool call of the
\* round instead of the loop's tc
AfterToolCallFirstRef(result, cause) ==
    LET tc == tool_calls[1]
        parts == IF provider = "anthropic"
                 THEN Append(tool_result_parts,
                             AnthropicMakeToolResultMessage(tc.id, result))
                 ELSE tool_result_parts
        msgs == IF provider = "anthropic" THEN messages
                ELSE Append(messages, GeminiMakeToolResultMessage(tc.name, result))
    IN  /\ tool_result_parts' = parts
        /\ call_outcomes' = Append(call_outcomes, cause)
        /\ IF tc_idx < Len(tool_calls)
           THEN /\ tc_idx' = tc_idx + 1
                /\ exec_log' = Append(exec_log, CallIssued(tool_calls[tc_idx + 1]))
                /\ messages' = msgs
                /\ pc' = "tool"
                /\ UNCHANGED gen_calls
           ELSE /\ messages' = IF provider = "anthropic" /\ parts # <<>>
                               THEN Append(msgs, [role |-> "user",
                                                  content |-> List(parts)])
                               ELSE msgs
                /\ pc' = "followup"
                /\ gen_calls' = gen_calls + 1
                /\ UNCHANGED <<tc_idx, exec_log>>
        /\ in_flight' = in_flight - 1 + 1
        /\ UNCHANGED <<mcp_vars, schema_vars, provider, response, tool_calls, followup, file_vars,
                       turns, turn_start, outcome, blocks, commands, resume_arg>>

\* AfterToolCall with one convention for both providers: every result is
\* appended as a message of its own as soon as its call ends
AfterToolCallUngrouped(result, cause) ==
    LET tc == tool_calls[tc_idx]
        parts == IF provider = "anthropic"
                 THEN Append(tool_result_parts,
                             AnthropicMakeToolResultMessage(tc.id, result))
                 ELSE tool_result_parts
        msgs == IF provider = "anthropic"
                THEN Append(messages,
                            [role |-> "user",
                             content |-> List(<<AnthropicMakeToolResultMessage(
                                                    tc.id, result)>>)])
                ELSE Append(messages, GeminiMakeToolResultMessage(tc.name, result))
    IN  /\ tool_result_parts' = parts
        /\ call_outcomes' = Append(call_outcomes, cause)
        /\ messages' = msgs
        /\ IF tc_idx < Len(tool_calls)
           THEN /\ tc_idx' = tc_idx + 1
                /\ exec_log' = Append(exec_log, CallIssued(tool_calls[tc_idx + 1]))
                /\ pc' = "tool"
                /\ UNCHANGED gen_calls
           ELSE /\ pc' = "followup"
                /\ gen_calls' = gen_calls + 1
                /\ UNCHANGED <<tc_idx, exec_log>>
        /\ in_flight' = in_flight - 1 + 1
        /\ UNCHANGED <<mcp_vars, schema_vars, provider, response, tool_calls, followup, file_vars,
                       turns, turn_start, outcome, blocks, commands, resume_arg>>

\* main.py:287-306: the code that follows a call_tool whose result is the
\* text `result`: the result entry, then the next call_tool or, after the
\* last one, the grouped message and the follow-up generate_response
AfterToolCall(result, cause) ==
    LET tc == tool_calls[tc_idx]
        parts == IF provider = "anthropic"
                 THEN Append(tool_result_parts,
                             AnthropicMakeToolResultMessage(tc.id, result))
                 ELSE tool_result_parts
        msgs == IF provider = "anthropic" THEN messages
                ELSE Append(messages, GeminiMakeToolResultMessage(tc.name, result))
    IN  /\ tool_result_parts' = parts
        /\ call_outcomes' = Append(call_outcomes, cause)
        /\ IF tc_idx < Len(tool_calls)
           THEN /\ tc_idx' = tc_idx + 1
                /\ exec_log' = Append(exec_log, CallIssued(tool_calls[tc_idx + 1]))
                /\ messages' = msgs
                /\ pc' = "tool"
                /\ UNCHANGED <<gen_calls, mcp_vars>>
           ELSE /\ messages' = IF provider = "anthropic" /\ parts # <<>>
                               THEN Append(msgs, [role |-> "user",
                                                  content |-> List(parts)])
                               ELSE msgs
                /\ pc' = "followup"
                /\ gen_calls' = gen_calls + 1
                /\ ToolsFormatted
                /\ UNCHANGED <<tc_idx, exec_log>>
        /\ in_flight' = in_flight - 1 + 1
        /\ UNCHANGED <<schema_vars, provider, response, tool_calls, followup, file_vars,
                       turns, turn_start, outcome, blocks, commands, resume_arg>>

\* ToolRaises with a retry in place of the error text of main.py:286: the
\* same call_tool is issued again
ToolRaisesRetries(e) ==
    /\ pc = "tool"
    /\ exec_log' = Append(exec_log, CallIssued(tool_calls[tc_idx]))
    /\ call_outcomes' = Append(call_outcomes, e)
    /\ in_flight' = in_flight - 1 + 1
    /\ UNCHANGED <<mcp_vars, schema_vars, provider, messages, pc, loop_vars,
                   file_vars, turns, turn_start, gen_calls, outcome, blocks,
                   commands, resume_arg>>

\* ToolRaises without the try of main.py:283-286: the exception ends the
\* round, and the turn with it
ToolRaisesAborts(e) ==
    /\ pc = "tool"
    /\ pc' = "input"
    /\ outcome' = "tool_failed"
    /\ call_outcomes' = Append(call_outcomes, e)
    /\ in_flight' = in_flight - 1
    /\ UNCHANGED <<mcp_vars, schema_vars, provider, messages, loop_vars, file_vars, turns, turn_start,
                   exec_log, gen_calls, blocks, commands, resume_arg>>

\* main.py:284: call_tool returned the tool's text
ToolReturns ==
    /\ pc = "tool"
    /\ AfterToolCall(ToolOutput(tool_calls[tc_idx].name), "")

\* main.py:285-286: call_tool raised e
ToolRaises(e) ==
    /\ pc = "tool"
    /\ AfterToolCall("Error executing tool: " \o e, e)

\* FollowupFails handled like the first call's failure: the turn is undone
FollowupFailsRollsBack(e) ==
    /\ pc = "followup"
    /\ messages' = turn_start
    /\ pc' = "input"
    /\ outcome' = "followup_failed"
    /\ in_flight' = in_flight - 1
    /\ UNCHANGED <<mcp_vars, schema_vars, provider, loop_vars, file_vars, turns, turn_start,
                   exec_log, gen_calls, blocks, commands, call_outcomes,
                   resume_arg>>

\* main.py:307-309: the follow-up generate_response raised
FollowupFails(e) ==
    /\ pc = "followup"
    /\ pc' = "input"
    /\ outcome' = "followup_failed"
    /\ in_flight' = in_flight - 1
    /\ UNCHANGED <<mcp_vars, schema_vars, provider, messages, loop_vars, file_vars, turns, turn_start,
                   exec_log, gen_calls, blocks, commands, call_outcomes, resume_arg>>

\* FollowupResponse with the loop main.py:319 rules out: the tool calls of
\* the follow-up are executed in the same turn
FollowupResponseChained(raw) ==
    /\ pc = "followup"
    /\ blocks' = blocks + Len(raw)
    /\ followup' = GenerateResponse(provider, raw)
    /\ messages' = Append(messages, MakeAssistantMessage(provider, followup'))
    /\ IF ParseToolCalls(followup') = <<>>
       THEN /\ pc' = "input"
            /\ outcome' = "tools_done"
            /\ UNCHANGED <<tool_calls, tc_idx, tool_result_parts, exec_log>>
       ELSE /\ tool_calls' = ParseToolCalls(followup')
            /\ tool_result_parts' = <<>>
            /\ tc_idx' = 1
            /\ exec_log' = Append(exec_log, CallIssued(tool_calls'[1]))
            /\ pc' = "tool"
            /\ UNCHANGED outcome
    /\ in_flight' = in_flight - 1 + (IF ParseToolCalls(followup') = <<>> THEN 0 ELSE 1)
    /\ UNCHANGED <<mcp_vars, schema_vars, provider, response, file_vars, turns, turn_start, gen_calls,
                   commands, call_outcomes, resume_arg>>

\* FollowupResponse without main.py:314-317: the follow-up is printed and
\* not appended
FollowupResponseNotRecorded(raw) ==
    /\ pc = "followup"
    /\ blocks' = blocks + Len(raw)
    /\ followup' = GenerateResponse(provider, raw)
    /\ pc' = "input"
    /\ outcome' = "tools_done"
    /\ in_flight' = in_flight - 1
    /\ UNCHANGED <<mcp_vars, schema_vars, provider, messages, response, tool_calls, tc_idx,
                   tool_result_parts, file_vars, turns, turn_start, exec_log,
                   gen_calls, commands, call_outcomes, resume_arg>>

\* main.py:304-320: the follow-up generate_response returned
FollowupResponse(raw) ==
    /\ pc = "followup"
    /\ blocks' = blocks + Len(raw)
    /\ followup' = GenerateResponse(provider, raw)
    /\ messages' = Append(messages, MakeAssistantMessage(provider, followup'))
    /\ pc' = "input"
    /\ outcome' = "tools_done"
    /\ in_flight' = in_flight - 1
    /\ UNCHANGED <<mcp_vars, schema_vars, provider, response, tool_calls, tc_idx, tool_result_parts,
                   file_vars, turns, turn_start, exec_log, gen_calls, commands,
                   call_outcomes, resume_arg>>

\* one step of a turn, while fewer than max_inputs inputs were accepted and
\* for at most max_blocks blocks
Turn(max_inputs, max_blocks) ==
    \/ \E text \in UserTexts : turns + commands < max_inputs /\ InputText(text)
    \/ \E e \in LlmErrors : FirstResponseFails(e)
    \/ \E raw \in Replies(provider, max_blocks - blocks) : FirstResponse(raw)
    \/ ToolReturns
    \/ \E e \in ToolErrors : ToolRaises(e)
    \/ \E e \in LlmErrors : FollowupFails(e)
    \/ \E raw \in Replies(provider, max_blocks - blocks) : FollowupResponse(raw)

-----------------------------------------------------------------------------
(* _handle_command, src/main.py:113-198, and save_summary, session.py:36-57 *)

\* main.py:168-171
ContextMessage(summary_text) ==
    "[Previous session summary for context]\n\n" \o summary_text
    \o "\n\n[End of previous session summary. Continue from where we left off.]"

\* main.py:176
Acknowledgment ==
    "I've reviewed the previous session summary and I'm ready to continue. What would you like to focus on next?"

\* session.py:39-46
SummaryPrompt ==
    "Summarize this conversation concisely. Include:\n- Key findings and discoveries\n- Tools run and their notable results\n- Current progress and state\n- Suggested next steps\n\nFormat as markdown with clear headings."

\* session.py:47: the message added to the copy of the history
SummaryPromptMessage == [role |-> "user", content |-> Str(SummaryPrompt)]

\* /save with the prompt appended to the history itself (messages.append)
\* instead of to a copy of it, session.py:47
SaveAppendsPrompt(arg) ==
    /\ pc = "input"
    /\ save_name' = IF arg # "" THEN arg ELSE DefaultSessionName
    /\ json_files' = [json_files EXCEPT ![save_name'] =
                          save_session_json(messages, provider)]
    /\ messages' = Append(messages, SummaryPromptMessage)
    /\ summary_messages' = messages'
    /\ pc' = "summary"
    /\ commands' = commands + 1
    /\ outcome' = "saved"
    /\ in_flight' = in_flight + 1
    /\ UNCHANGED <<mcp_vars, schema_vars, provider, loop_vars, md_files, turns,
                   turn_start, exec_log, gen_calls, blocks, call_outcomes,
                   resume_arg>>

\* main.py:125-132 and session.py:38-51: /save [arg] writes the structured
\* record, then save_summary issues its generate_response
Save(arg) ==
    /\ pc = "input"
    /\ save_name' = IF arg # "" THEN arg ELSE DefaultSessionName
    /\ json_files' = [json_files EXCEPT ![save_name'] =
                          save_session_json(messages, provider)]
    /\ summary_messages' = messages \o <<SummaryPromptMessage>>
    /\ pc' = "summary"
    /\ commands' = commands + 1
    /\ outcome' = "saved"
    /\ in_flight' = in_flight + 1
    /\ ToolsFormatted
    /\ UNCHANGED <<schema_vars, provider, messages, loop_vars, md_files, turns, turn_start,
                   exec_log, gen_calls, blocks, call_outcomes, resume_arg>>

\* session.py:52-57: the summary's generate_response returned.  A reply with
\* no text block has text None: open() has created or emptied the file when
\* f.write(None) raises TypeError, which nothing catches.
SummaryResponse(raw) ==
    /\ pc = "summary"
    /\ blocks' = blocks + Len(raw)
    /\ LET summary_text == GenerateResponse(provider, raw).text
       IN  IF IsStr(summary_text)
           THEN /\ md_files' = [md_files EXCEPT ![save_name] = summary_text]
                /\ pc' = "input"
           ELSE /\ md_files' = [md_files EXCEPT ![save_name] = Str("")]
                /\ pc' = "crashed"
    /\ in_flight' = in_flight - 1
    /\ summary_messages' = <<>>
    /\ UNCHANGED <<mcp_vars, schema_vars, provider, messages, loop_vars, json_files, save_name, turns,
                   turn_start, exec_log, gen_calls, outcome, commands, call_outcomes, resume_arg>>

\* session.py:53-57: the summary's generate_response raised e
SummaryFails(e) ==
    /\ pc = "summary"
    /\ md_files' = [md_files EXCEPT ![save_name] =
                        Str("*Summary generation failed: " \o e \o "*")]
    /\ pc' = "input"
    /\ in_flight' = in_flight - 1
    /\ summary_messages' = <<>>
    /\ UNCHANGED <<mcp_vars, schema_vars, provider, messages, loop_vars,
                   json_files, save_name, turns, turn_start, exec_log,
                   gen_calls, outcome, blocks, commands, call_outcomes,
                   resume_arg>>

\* Resume with messages.clear() before the lookup instead of inside the
\* branches of main.py:163 and 172
ResumeClearsFirst(arg) ==
    /\ pc = "input"
    /\ arg # ""
    /\ resume_arg' = arg
    /\ IF Exists(json_files, arg)
       THEN /\ messages' = load_session_json(json_files[arg])[1]
            /\ outcome' = "resumed_json"
       ELSE IF Exists(md_files, arg)
       THEN /\ messages' = << [role |-> "user",
                               content |-> Str(ContextMessage(md_files[arg].str))],
                              [role |-> "assistant",
                               content |-> Str(Acknowledgment)] >>
            /\ outcome' = "resumed_summary"
       ELSE /\ outcome' = "no_session"
            /\ messages' = <<>>
    /\ commands' = commands + 1
    /\ UNCHANGED <<in_flight, mcp_vars, schema_vars, provider, pc, loop_vars,
                   file_vars, turns, turn_start, exec_log, gen_calls, blocks,
                   call_outcomes>>

\* Resume with the two branches of main.py:156 and 166 in the other order:
\* the summary is used whenever it exists
ResumePrefersSummary(arg) ==
    /\ pc = "input"
    /\ arg # ""
    /\ resume_arg' = arg
    /\ IF Exists(md_files, arg)
       THEN /\ messages' = << [role |-> "user",
                               content |-> Str(ContextMessage(md_files[arg].str))],
                              [role |-> "assistant",
                               content |-> Str(Acknowledgment)] >>
            /\ outcome' = "resumed_summary"
       ELSE IF Exists(json_files, arg)
       THEN /\ messages' = load_session_json(json_files[arg])[1]
            /\ outcome' = "resumed_json"
       ELSE /\ outcome' = "no_session"
            /\ UNCHANGED messages
    /\ commands' = commands + 1
    /\ UNCHANGED <<in_flight, mcp_vars, schema_vars, provider, pc, loop_vars, file_vars, turns, turn_start,
                   exec_log, gen_calls, blocks, call_outcomes>>

\* Resume without messages.clear() (main.py:163, 172): what is loaded is
\* appended to the history
ResumeKeepsHistory(arg) ==
    /\ pc = "input"
    /\ arg # ""
    /\ resume_arg' = arg
    /\ IF Exists(json_files, arg)
       THEN /\ messages' = messages \o load_session_json(json_files[arg])[1]
            /\ outcome' = "resumed_json"
       ELSE IF Exists(md_files, arg)
       THEN /\ messages' = messages \o
                            << [role |-> "user",
                               content |-> Str(ContextMessage(md_files[arg].str))],
                              [role |-> "assistant",
                               content |-> Str(Acknowledgment)] >>
            /\ outcome' = "resumed_summary"
       ELSE /\ outcome' = "no_session"
            /\ UNCHANGED messages
    /\ commands' = commands + 1
    /\ UNCHANGED <<in_flight, mcp_vars, schema_vars, provider, pc, loop_vars, file_vars, turns, turn_start,
                   exec_log, gen_calls, blocks, call_outcomes>>

\* main.py:153-181: /resume <arg>
Resume(arg) ==
    /\ pc = "input"
    /\ arg # ""
    /\ resume_arg' = arg
    /\ IF Exists(json_files, arg)
       THEN /\ messages' = load_session_json(json_files[arg])[1]
            /\ outcome' = "resumed_json"
       ELSE IF Exists(md_files, arg)
       THEN /\ messages' = << [role |-> "user",
                               content |-> Str(ContextMessage(md_files[arg].str))],
                              [role |-> "assistant",
                               content |-> Str(Acknowledgment)] >>
            /\ outcome' = "resumed_summary"
       ELSE /\ outcome' = "no_session"
            /\ UNCHANGED messages
    /\ commands' = commands + 1
    /\ UNCHANGED <<in_flight, mcp_vars, schema_vars, provider, pc, loop_vars, file_vars, turns, turn_start,
                   exec_log, gen_calls, blocks, call_outcomes>>

\* main.py:136-151, 183-198: /resume without a name, /sessions and an unknown
\* command only print
OtherCommand ==
    /\ pc = "input"
    /\ UNCHANGED vars

\* one step of a session command, under the bounds of SessionSpec
Command ==
    \/ \E arg \in {"", "s1"} : turns + commands < MaxInputs /\ Save(arg)
    \/ \E raw \in Replies(provider, SessionBlocks - blocks) : SummaryResponse(raw)
    \/ \E e \in LlmErrors : SummaryFails(e)
    \/ \E arg \in SessionNames : turns + commands < MaxInputs /\ Resume(arg)
    \/ OtherCommand

-----------------------------------------------------------------------------
(* The schemas _convert_schema is applied to, and its repeated application *)

\* schemas without nesting: a plain one, and ones with unsupported keys
\* beside the keys that carry meaning
LeafSchemas ==
    { ("type" :> Str("string")),
      ("type" :> Str("string"))
          @@ ("$schema" :> Str("http://json-schema.org/draft-07/schema#")),
      ("type" :> Str("string")) @@ ("enum" :> List(<<"tcp", "udp">>))
          @@ ("additionalProperties" :> Bool(FALSE)),
      ("type" :> Str("integer")) @@ ("description" :> Str("port"))
          @@ ("$schema" :> Str("http://json-schema.org/draft-07/schema#"))
          @@ ("additionalProperties" :> Bool(FALSE)) }

\* an object schema with one property
ObjectOf(prop) ==
    ("type" :> Str("object")) @@ ("properties" :> Dict("host" :> Dict(prop)))
    @@ ("required" :> List(<<"host">>))

\* the same, closed, as pydantic and zod emit it
ClosedObjectOf(prop) ==
    ObjectOf(prop) @@ ("additionalProperties" :> Bool(FALSE))
    @@ ("$schema" :> Str("http://json-schema.org/draft-07/schema#"))

\* an array schema with an item schema
ArrayOf(item) == ("type" :> Str("array")) @@ ("items" :> Dict(item))

\* an array schema whose items is a list of schemas: not a dict
TupleOf(item) ==
    ("type" :> Str("array")) @@ ("items" :> List(<<Dict(item)>>))
    @@ ("additionalProperties" :> Bool(FALSE))

RECURSIVE SchemasOfDepth(_)
SchemasOfDepth(d) ==
    IF d = 0 THEN LeafSchemas
    ELSE LET inner == SchemasOfDepth(d - 1)
         IN  {ObjectOf(s) : s \in inner} \cup {ClosedObjectOf(s) : s \in inner}
             \cup {ArrayOf(s) : s \in inner} \cup {TupleOf(s) : s \in LeafSchemas}

Schemas == UNION {SchemasOfDepth(d) : d \in 0..MaxDepth}

\* a schema is picked for the first application of _convert_schema
SchemaInit ==
    /\ ChatStart
    /\ session = FALSE
    /\ tools_cache = None
    /\ mcp_op = "none"
    /\ mcp_ret = Returned(None)
    /\ mcp_steps = 0
    /\ queries = 0
    /\ fetches = 0
    /\ listed = 0
    /\ first_listed = None
    /\ input_schema \in {Dict(s) : s \in Schemas}
    /\ cleaned = None
    /\ cleaned_once = None
    /\ passes = 0

\* gemini_client.py:41: _convert_schema is applied to the schema
ConvertFirst ==
    /\ passes = 0
    /\ cleaned' = Dict(convert_schema(input_schema.dict))
    /\ cleaned_once' = cleaned'
    /\ passes' = 1
    /\ UNCHANGED <<input_schema, mcp_vars, provider, messages, pc, loop_vars,
                   file_vars, hist_vars>>

\* _convert_schema is applied to what it returned
ConvertAgain ==
    /\ passes >= 1
    /\ passes < MaxPasses
    /\ cleaned' = Dict(convert_schema(cleaned.dict))
    /\ passes' = passes + 1
    /\ UNCHANGED <<input_schema, cleaned_once, mcp_vars, provider, messages, pc,
                   loop_vars, file_vars, hist_vars>>

SchemaNext == ConvertFirst \/ ConvertAgain

SchemaSpec == SchemaInit /\ [][SchemaNext]_vars

-----------------------------------------------------------------------------
(* The specifications. *)

\* the turn machine alone: text inputs, and the end of input
Next == InputExit \/ InputEmpty \/ Turn(MaxTurns, MaxBlocks)

Spec == Init /\ [][Next]_vars

\* an external call in flight ends: it returns or it raises
CallEnds ==
    \/ \E e \in LlmErrors : FirstResponseFails(e)
    \/ \E raw \in Replies(provider, MaxBlocks - blocks) : FirstResponse(raw)
    \/ ToolReturns
    \/ \E e \in ToolErrors : ToolRaises(e)
    \/ \E e \in LlmErrors : FollowupFails(e)
    \/ \E raw \in Replies(provider, MaxBlocks - blocks) : FollowupResponse(raw)

\* the text turns of a behaviour of LiveSpec
LiveNext == InputExit \/ InputEmpty \/ Turn(LiveTurns, MaxBlocks)

\* the turn machine when every generate_response and call_tool in flight
\* eventually returns or raises
LiveSpec == Init /\ [][LiveNext]_vars /\ WF_vars(CallEnds)

\* the turn machine and the session commands
SessionNext ==
    InputExit \/ InputEmpty \/ Turn(MaxInputs, SessionBlocks) \/ Command

SessionSpec == Init /\ [][SessionNext]_vars

\* the client alone, its methods called one after the other in any order
McpNext ==
    \/ \E result \in {"ok", "spawn_failed", "initialize_failed"} :
           mcp_steps < MaxMcpOps /\ connect(result)
    \/ \E reply \in ServerReplies :
           mcp_steps < MaxMcpOps /\ list_tools(reply)
    \/ \E reply \in {[text |-> "ok"]} \cup {[error |-> e] : e \in ServerErrors} :
           mcp_steps < MaxMcpOps /\ call_tool("nmap", reply)
    \/ \E result \in {"ok", "aclose_failed"} :
           mcp_steps < MaxMcpOps /\ disconnect(result)

McpSpec == McpInit /\ [][McpNext]_vars

-----------------------------------------------------------------------------
(* What the properties read off the history. *)

\* the content parts of a message; a plain text message has none
Parts(msg) == IF IsList(msg.content) THEN msg.content.list ELSE <<>>

IsToolCallPart(part) ==
    \/ "type" \in DOMAIN part /\ part.type = "tool_use"
    \/ "function_call" \in DOMAIN part

IsToolResultPart(part) ==
    \/ "type" \in DOMAIN part /\ part.type = "tool_result"
    \/ "function_response" \in DOMAIN part

ToolCallParts(msg) == SelectSeq(Parts(msg), IsToolCallPart)

RECURSIVE ToolResultEntries(_)
\* the tool-result entries of a sequence of messages, in order
ToolResultEntries(msgs) ==
    IF msgs = <<>> THEN <<>>
    ELSE SelectSeq(Parts(Head(msgs)), IsToolResultPart)
         \o ToolResultEntries(Tail(msgs))

RECURSIVE CountToolCallParts(_)
CountToolCallParts(msgs) ==
    IF msgs = <<>> THEN 0
    ELSE Len(ToolCallParts(Head(msgs))) + CountToolCallParts(Tail(msgs))

\* the call a tool-result entry names: tool_use_id, or function_response.name
EntryRef(part) ==
    IF "type" \in DOMAIN part THEN part.tool_use_id
    ELSE part.function_response.name

\* the text a tool-result entry carries
EntryText(part) ==
    IF "type" \in DOMAIN part THEN part.content.str
    ELSE part.function_response.response.result

\* what a tool-result entry must name for tool call tc
CallRef(tc) == IF provider = "anthropic" THEN tc.id ELSE tc.name

HasToolCalls(resp) == "tool_calls" \in DOMAIN resp /\ resp.tool_calls # <<>>

\* the history still starts with what it held when the turn's input was read
KeepsTurnStart ==
    /\ Len(messages) >= Len(turn_start)
    /\ SubSeq(messages, 1, Len(turn_start)) = turn_start

\* the messages the current turn has appended
TurnMessages == SubSeq(messages, Len(turn_start) + 1, Len(messages))

\* a turn is under way, or is the last thing that happened
InTurn == outcome \in {"running", "text", "first_failed", "followup_failed",
                       "tools_done"}

-----------------------------------------------------------------------------
(* The claims. *)

\* C1: single-round cap.  Tool calls are executed only for the first response
\* of a turn: tool execution is never entered after the follow-up call was
\* issued, and when the follow-up has returned the call_tool invocations of
\* the turn are exactly the tool calls of the first response, whatever tool
\* calls the follow-up holds.
SingleRoundCap ==
    /\ pc = "tool" => gen_calls = 1
    /\ outcome = "tools_done" =>
          /\ pc \in {"input", "exited"}
          /\ gen_calls = 2
          /\ exec_log = [i \in 1..Len(response.tool_calls) |->
                            [name |-> response.tool_calls[i].name,
                             arguments |-> response.tool_calls[i].arguments]]
          /\ KeepsTurnStart
          /\ Len(ToolResultEntries(TurnMessages)) = Len(response.tool_calls)

\* a follow-up that holds tool calls has returned, and the loop is reading
\* the next input with none of them executed
FollowupCallsLatent ==
    /\ pc = "input"
    /\ outcome = "tools_done"
    /\ HasToolCalls(followup)
    /\ Len(exec_log) = Len(response.tool_calls)

\* C2: rollback on initial failure.  When the first generate_response of a
\* turn failed, the history is the history before the input was appended, no
\* tool call was executed, one generation call was made, and the loop is back
\* at reading input.
RollbackOnInitialFailure ==
    outcome = "first_failed" =>
        /\ pc \in {"input", "exited"}
        /\ messages = turn_start
        /\ exec_log = <<>>
        /\ gen_calls = 1

\* the first call failed in a turn that started from a history that is not empty
RolledBackSecondTurn ==
    /\ outcome = "first_failed"
    /\ pc = "input"
    /\ turn_start # <<>>

\* C3: partial tool failure isolation.  A step from a call_tool in flight,
\* whether the call returned or raised, goes to the next call_tool of the
\* round or, after the last, to the follow-up generate_response; and when the
\* follow-up is issued all N calls were attempted and the history holds
\* exactly N tool-result entries, the entry of a call that raised carrying
\* "Error executing tool: <cause>" and the others the tool's output.
PartialToolFailureIsolation ==
    [][ /\ pc = "tool" =>
            IF tc_idx < Len(tool_calls)
            THEN pc' = "tool" /\ tc_idx' = tc_idx + 1
                 /\ Len(exec_log') = tc_idx + 1
            ELSE pc' = "followup" /\ gen_calls' = 2
        /\ pc' = "followup" =>
            LET N == Len(tool_calls')
                entries == ToolResultEntries(
                               SubSeq(messages', Len(turn_start') + 1, Len(messages')))
            IN  /\ N >= 1
                /\ Len(exec_log') = N
                /\ Len(call_outcomes') = N
                /\ Len(entries) = N
                /\ \A i \in 1..N :
                      EntryText(entries[i]) =
                          IF call_outcomes'[i] = ""
                          THEN ToolOutput(tool_calls'[i].name)
                          ELSE "Error executing tool: " \o call_outcomes'[i]
      ]_vars

\* three tool calls of which the second raised and the others returned, and
\* the follow-up is in flight
SecondOfThreeFailed ==
    /\ pc = "followup"
    /\ Len(tool_calls) = 3
    /\ call_outcomes[1] = "" /\ call_outcomes[2] # "" /\ call_outcomes[3] = ""

\* a message whose content is tool-result entries and nothing else
IsToolResultMessage(msg) ==
    /\ msg.role = "user"
    /\ Parts(msg) # <<>>
    /\ \A i \in 1..Len(Parts(msg)) : IsToolResultPart(Parts(msg)[i])

\* the name a tool-call part of an assistant message names
PartCallName(part) ==
    IF "type" \in DOMAIN part THEN part.name ELSE part.function_call.name

\* tm records a round of the tool calls `calls`: the user's text, the
\* assistant message with one tool-call part per call, in order, then
\* tool-result messages and nothing else, holding one entry per call
RoundRecorded(tm, calls) ==
    /\ Len(tm) >= 3
    /\ tm[1].role = "user" /\ IsStr(tm[1].content)
    /\ tm[1].content.str \in UserTexts
    /\ tm[2].role = "assistant"
    /\ Len(ToolCallParts(tm[2])) = Len(calls)
    /\ \A i \in 1..Len(calls) : PartCallName(ToolCallParts(tm[2])[i]) = calls[i].name
    /\ \A k \in 3..Len(tm) : IsToolResultMessage(tm[k])
    /\ Len(ToolResultEntries(tm)) = Len(calls)

\* the messages a round of n tool calls appends after the assistant message
ResultMessageCount(n) == IF provider = "anthropic" THEN 1 ELSE n

\* C4: follow-up failure preserves the round.  When the second
\* generate_response of a turn failed, the history is the history before the
\* turn followed by the user message, the assistant message with the
\* tool-call parts and the tool-result entries of the round, and nothing
\* after them; two generation calls were made and the loop is back at
\* reading input.
FollowupFailurePreservesRound ==
    outcome = "followup_failed" =>
        /\ pc \in {"input", "exited"}
        /\ gen_calls = 2
        /\ KeepsTurnStart
        /\ Len(TurnMessages) = 2 + ResultMessageCount(Len(response.tool_calls))
        /\ RoundRecorded(TurnMessages, response.tool_calls)

\* the follow-up failed after a round of two tool calls
FollowupFailedAfterTwoCalls ==
    /\ outcome = "followup_failed"
    /\ pc = "input"
    /\ Len(response.tool_calls) = 2

\* C5: ordered execution and result correspondence.  In a round the
\* call_tool invocations issued so far are the first tool calls of the first
\* response's list, in its order, a call is issued only when every earlier
\* one has ended, and the i-th tool-result entry in the history names the
\* i-th call (its id for Anthropic, its name for Gemini).
OrderedExecution ==
    (pc \in {"tool", "followup"} \/ outcome \in {"followup_failed", "tools_done"}) =>
        /\ tool_calls = response.tool_calls
        /\ Len(exec_log) <= Len(tool_calls)
        /\ \A i \in 1..Len(exec_log) :
              exec_log[i] = [name |-> tool_calls[i].name,
                             arguments |-> tool_calls[i].arguments]
        /\ Len(exec_log) = Len(call_outcomes) + (IF pc = "tool" THEN 1 ELSE 0)
        /\ pc = "tool" => tc_idx = Len(exec_log)
        /\ pc # "tool" => Len(exec_log) = Len(tool_calls)
        /\ KeepsTurnStart
        /\ LET entries == ToolResultEntries(TurnMessages)
           IN  /\ Len(entries) = IF provider = "anthropic" /\ pc = "tool" THEN 0
                                 ELSE Len(call_outcomes)
               /\ \A i \in 1..Len(entries) :
                      EntryRef(entries[i]) = CallRef(tool_calls[i])
        /\ \A i \in 1..Len(tool_result_parts) :
              EntryRef(tool_result_parts[i]) = CallRef(tool_calls[i])

\* a round of two different tool calls has ended
TwoDifferentCallsDone ==
    /\ pc = "followup"
    /\ Len(tool_calls) = 2
    /\ tool_calls[1].name # tool_calls[2].name
    /\ Len(ToolResultEntries(TurnMessages)) = 2

\* C6: shape of a successful tool turn.  When the first response held tool
\* calls and both generation calls succeeded, the turn appended the user
\* message, the assistant message with the tool-call parts, the tool-result
\* entries of the round and, last, the follow-up assistant message, and
\* nothing else.
SuccessfulToolTurnShape ==
    outcome = "tools_done" =>
        /\ KeepsTurnStart
        /\ LET k == 2 + ResultMessageCount(Len(response.tool_calls))
               tm == TurnMessages
           IN  /\ Len(tm) = k + 1
               /\ RoundRecorded(SubSeq(tm, 1, k), response.tool_calls)
               /\ tm[k + 1] = MakeAssistantMessage(provider, followup)
               /\ tm[k + 1].role = "assistant"
               /\ ToolResultEntries(<<tm[k + 1]>>) = <<>>

\* the scenario of the spec: one http_probe call, its result, and a final
\* text with no further tool call
ProbeScenario ==
    /\ outcome = "tools_done"
    /\ pc = "input"
    /\ Len(response.tool_calls) = 1
    /\ response.tool_calls[1].name = "http_probe"
    /\ response.tool_calls[1].arguments = ToolArgs
    /\ EntryText(ToolResultEntries(TurnMessages)[1]) = ToolOutput("http_probe")
    /\ followup.text = Str("t")
    /\ ~HasToolCalls(followup)

\* C7: adapter-specific grouping of tool results.  For Anthropic nothing is
\* appended while the calls of a round are executed, and after the last one
\* exactly one user message is appended whose content is the N tool_result
\* parts in call order.  For Gemini each call's result is its own user
\* message, appended when the call ends: with the i-th call in flight the
\* round has appended i - 1 of them.
AdapterGrouping ==
    (pc \in {"tool", "followup"} \/ outcome \in {"followup_failed", "tools_done"}) =>
        /\ KeepsTurnStart
        /\ LET results == SelectSeq(TurnMessages, IsToolResultMessage)
               N == Len(tool_calls)
           IN  IF provider = "anthropic"
               THEN IF pc = "tool"
                    THEN results = <<>> /\ Len(TurnMessages) = 2
                    ELSE /\ Len(results) = 1
                         /\ TurnMessages[3] = results[1]
                         /\ Len(Parts(results[1])) = N
                         /\ \A i \in 1..N :
                               Parts(results[1])[i].tool_use_id = tool_calls[i].id
               ELSE /\ Len(results) = Len(call_outcomes)
                    /\ pc = "tool" => Len(TurnMessages) = 2 + (tc_idx - 1)
                    /\ \A i \in 1..Len(results) :
                          /\ TurnMessages[2 + i] = results[i]
                          /\ Len(Parts(results[i])) = 1
                          /\ Parts(results[i])[1].function_response.name
                                 = tool_calls[i].name

\* Gemini: the second call of a round is in flight and the first call's
\* result is in the history
GeminiSecondCallInFlight ==
    /\ provider = "gemini"
    /\ pc = "tool"
    /\ tc_idx = 2
    /\ Len(SelectSeq(TurnMessages, IsToolResultMessage)) = 1

\* C8: session round-trip.  Whenever a structured record is written (by
\* /save, or by the auto-save on exit), load_session_json of the written file
\* returns the messages that were saved, equal in roles, content parts and
\* order, and the provider tag that was saved.
SessionRoundTrip ==
    [][ \A n \in SessionNames :
            json_files'[n] # json_files[n] =>
                load_session_json(json_files'[n]) = <<messages, provider>>
      ]_vars

\* a conversation with a text-only message, tool-call parts and tool-result
\* entries was written by /save, and the file loads back to it
SavedToolConversation ==
    /\ pc = "summary"
    /\ \E i \in 1..Len(messages) : IsStr(messages[i].content)
    /\ CountToolCallParts(messages) > 0
    /\ ToolResultEntries(messages) # <<>>
    /\ load_session_json(json_files[save_name])[1] = messages

\* a step of /resume <name>: the only command that leaves the loop at input
ResumeStep == commands' = commands + 1 /\ pc' = "input"

\* the summary-only seed of main.py:168-177, spelled out
SeedMessages(summary_text) ==
    << [role |-> "user",
        content |-> Str("[Previous session summary for context]\n\n"
                        \o summary_text
                        \o "\n\n[End of previous session summary. Continue from where we left off.]")],
       [role |-> "assistant",
        content |-> Str("I've reviewed the previous session summary and I'm ready to continue. What would you like to focus on next?")] >>

\* C9: resume policy.  After /resume <name>, if a structured record exists
\* for the name the history is exactly the messages of that record (it
\* serialises to the record's message array), whether or not a summary
\* exists too; the history is the summary's seed only when no structured
\* record exists for the name.
ResumePolicy ==
    [][ ResumeStep =>
            LET a == resume_arg'
            IN  /\ a \in SessionNames
                /\ Exists(json_files, a) =>
                       /\ JsonDump("messages", messages') = json_files[a].v.messages
                       /\ outcome' = "resumed_json"
                /\ outcome' = "resumed_summary" =>
                       /\ ~Exists(json_files, a)
                       /\ Exists(md_files, a)
                       /\ messages' = SeedMessages(md_files[a].str)
      ]_vars

\* after a turn, a name with both a record and a summary was resumed from
\* the record, which replaced the turn's history
ResumedRecordDespiteSummary ==
    /\ outcome = "resumed_json"
    /\ turns = 1
    /\ Exists(md_files, resume_arg)
    /\ Exists(json_files, resume_arg)
    /\ messages = load_session_json(InitialRecords[OldSessionName])[1]

\* C10: summary-only resume.  After a resume from a summary alone the
\* history is exactly two messages, a user text embedding the summary and
\* the fixed acknowledgment of the assistant, with no tool-call part, and
\* nothing of the history before it.
SummaryOnlyResume ==
    outcome = "resumed_summary" =>
        /\ ~Exists(json_files, resume_arg)
        /\ Exists(md_files, resume_arg)
        /\ Len(messages) = 2
        /\ messages = SeedMessages(md_files[resume_arg].str)
        /\ CountToolCallParts(messages) = 0

\* a turn with tool calls ran, then the session was resumed from the summary
SummaryResumeAfterToolTurn ==
    /\ outcome = "resumed_summary"
    /\ turns = 1
    /\ HasToolCalls(response)
    /\ Len(messages) = 2

\* C11: the summary is always written.  Whenever save_summary has been
\* invoked and its generate_response has returned or failed, the summary file
\* of the requested name is written and the loop is back at input: no error
\* propagates, and after a failed generation the file holds the placeholder
\* naming the failure.
SummaryAlwaysWritten ==
    [][ pc = "summary" /\ pc' # "summary" =>
            /\ pc' = "input"
            /\ Exists(md_files', save_name)
            /\ md_files'[save_name] # Str("")
      ]_vars

SchemaCleaningIdempotent ==
    passes >= 2 => cleaned = cleaned_once

\* a closed object holding an array of closed leaves was cleaned twice; the
\* first application changed it at every level
NestedSchemaCleanedTwice ==
    /\ passes = 2
    /\ input_schema =
           Dict(ClosedObjectOf(ArrayOf(
               ("type" :> Str("integer")) @@ ("description" :> Str("port"))
               @@ ("$schema" :> Str("http://json-schema.org/draft-07/schema#"))
               @@ ("additionalProperties" :> Bool(FALSE)))))
    /\ cleaned_once =
           Dict(ObjectOf(ArrayOf(
               ("type" :> Str("integer")) @@ ("description" :> Str("port")))))
    /\ cleaned = cleaned_once

\* C14: make_assistant_message preserves the vendor's part order.  For both
\* adapters, the content parts of the assistant message appended for a reply
\* (the first response of a turn, and its follow-up) are exactly the text
\* and tool-call parts of the reply, in the order the vendor returned them.
AssistantMessageMirrorsReply ==
    /\ (pc \in {"tool", "followup"} \/ (pc = "input" /\ outcome \in {"text", "followup_failed", "tools_done"})) =>
           Parts(TurnMessages[2]) = response.raw
    /\ (pc = "input" /\ outcome = "tools_done") =>
           Parts(TurnMessages[Len(TurnMessages)]) = followup.raw

\* the first generate_response of a turn returns in this step
FirstResponseStep == pc = "first" /\ outcome' # "first_failed"

\* C15: pure text turn.  When the first response of a turn has no tool
\* calls, the turn has appended exactly the user message followed by one
\* assistant message, has executed no tool call, has issued exactly one
\* generate_response, and the loop is back at input.
PureTextTurn ==
    [][ (FirstResponseStep /\ ~HasToolCalls(response')) =>
            /\ pc' = "input"
            /\ messages' = turn_start \o
                   << messages[Len(messages)],
                      MakeAssistantMessage(provider, response') >>
            /\ messages[Len(messages)].role = "user"
            /\ messages'[Len(messages')].role = "assistant"
            /\ ToolCallParts(messages'[Len(messages')]) = <<>>
            /\ exec_log' = <<>>
            /\ gen_calls' = 1
            /\ in_flight' = 0
      ]_vars

\* a second turn ended as a pure text exchange, with a text part in the
\* reply
TextTurnAfterAnotherTurn ==
    /\ pc = "input"
    /\ outcome = "text"
    /\ turns = 2
    /\ Len(messages) = Len(turn_start) + 2
    /\ Parts(messages[Len(messages)]) # <<>>
    /\ exec_log = <<>>
    /\ gen_calls = 1

\* the counts of a turn: one or two generate_response calls, never a
\* call_tool beyond the tool calls of the first response, and, when the turn
\* is over, as many call_tool invocations as the first response held tool
\* calls (none when the first generate_response failed)
TraversalCounts ==
    InTurn =>
        /\ gen_calls \in 1..2
        /\ pc = "first" => exec_log = <<>> /\ gen_calls = 1
        /\ pc \in {"tool", "followup"} => Len(exec_log) <= Len(response.tool_calls)
        /\ pc = "input" =>
              Len(exec_log) = IF outcome = "first_failed" THEN 0
                              ELSE Len(response.tool_calls)

\* C16: bounded traversal per turn.  Every text input starts one traversal
\* of the turn machine which, provided each external call returns or fails,
\* always comes back to waiting for input; it issues one or two
\* generate_response calls and as many call_tool invocations as the first
\* response holds tool calls.
BoundedTraversal ==
    /\ []TraversalCounts
    /\ [][ /\ turns' # turns => pc = "input" /\ turns' = turns + 1
           /\ pc' = "first" => pc = "input" /\ turns' = turns + 1
         ]_vars
    /\ (pc \in {"first", "tool", "followup"}) ~> (pc = "input")

\* a turn with three tool calls and a follow-up is over
ThreeCallTraversalOver ==
    /\ pc = "input"
    /\ outcome = "tools_done"
    /\ gen_calls = 2
    /\ Len(exec_log) = 3
    /\ Len(response.tool_calls) = 3

\* C17: no concurrent fan-out.  At every point at most one generate_response
\* or call_tool is in flight, and while the loop waits for or reads a human
\* input none is: an input is accepted only when every call of the turn or
\* command before it has ended.
NoConcurrentFanOut ==
    /\ in_flight <= 1
    /\ pc = "input" => in_flight = 0
    /\ pc \in {"first", "tool", "followup", "summary"} => in_flight = 1

\* the second call_tool of a round of two is the one call in flight
SecondCallAlone ==
    /\ pc = "tool"
    /\ Len(tool_calls) = 2
    /\ tc_idx = 2
    /\ Len(exec_log) = 2
    /\ Len(call_outcomes) = 1
    /\ in_flight = 1

\* s is an initial part of t
IsPrefix(s, t) == Len(s) <= Len(t) /\ SubSeq(t, 1, Len(s)) = s

\* C18: append-only history.  At every point of a turn, and at its end, the
\* history starts with the history the turn started from, and equals it
\* when the first generate_response failed; every step other than a resume
\* and that rollback leaves the messages already in the history in place
\* and unedited.
AppendOnlyHistory ==
    [][ /\ InTurn' => IsPrefix(turn_start', messages')
        /\ outcome' = "first_failed" => messages' = turn_start'
        /\ (~ResumeStep /\ outcome' # "first_failed") => IsPrefix(messages, messages')
        /\ (pc = "first" /\ outcome' = "first_failed") =>
               messages = Append(messages', messages[Len(messages)])
      ]_vars

\* a turn with a tool call and a follow-up ended after an earlier turn, with
\* the earlier turn's messages still in front
ToolTurnOnTopOfHistory ==
    /\ pc = "input"
    /\ outcome = "tools_done"
    /\ turns = 2
    /\ Len(turn_start) >= 2
    /\ Len(messages) >= Len(turn_start) + 4
    /\ IsPrefix(turn_start, messages)

\* C19: resume of an unknown name mutates nothing.  When /resume <name> is
\* given and neither a structured record nor a summary exists for the name,
\* the history, the active provider and the stored records and summaries
\* are unchanged; the failure is only reported.
ResumeUnknownMutatesNothing ==
    [][ (ResumeStep /\ ~Exists(json_files, resume_arg')
                    /\ ~Exists(md_files, resume_arg')) =>
            /\ outcome' = "no_session"
            /\ messages' = messages
            /\ provider' = provider
            /\ json_files' = json_files
            /\ md_files' = md_files
            /\ in_flight' = 0
      ]_vars

\* after a turn with a tool call, a name with no file was given to /resume
\* and the turn's history is still there
UnknownNameAfterToolTurn ==
    /\ outcome = "no_session"
    /\ ~Exists(json_files, resume_arg)
    /\ ~Exists(md_files, resume_arg)
    /\ turns = 1
    /\ CountToolCallParts(messages) > 0
    /\ IsPrefix(turn_start, messages)

RECURSIVE HasUnsupportedKeyword(_)
\* the schema holds $schema or additionalProperties as a keyword, at its own
\* level, in the schema of a property, or in an item schema
HasUnsupportedKeyword(schema) ==
    \/ DOMAIN schema \cap UNSUPPORTED # {}
    \/ /\ "properties" \in DOMAIN schema
       /\ \E name \in DOMAIN schema["properties"].dict :
              HasUnsupportedKeyword(schema["properties"].dict[name].dict)
    \/ /\ "items" \in DOMAIN schema
       /\ IF IsDict(schema["items"])
          THEN HasUnsupportedKeyword(schema["items"].dict)
          ELSE \E i \in DOMAIN schema["items"].list :
                   HasUnsupportedKeyword(schema["items"].list[i].dict)

RECURSIVE KeepsOtherKeys(_, _)
\* out holds every key of schema other than the unsupported ones, at the
\* same position and with the same value: nested schemas compared the same
\* way, everything else equal
KeepsOtherKeys(schema, out) ==
    /\ DOMAIN schema \ UNSUPPORTED \subseteq DOMAIN out
    /\ \A k \in DOMAIN schema \ UNSUPPORTED :
          IF k = "properties"
          THEN /\ IsDict(out[k])
               /\ DOMAIN out[k].dict = DOMAIN schema[k].dict
               /\ \A name \in DOMAIN schema[k].dict :
                      KeepsOtherKeys(schema[k].dict[name].dict,
                                     out[k].dict[name].dict)
          ELSE IF k = "items" /\ IsDict(schema[k])
          THEN IsDict(out[k]) /\ KeepsOtherKeys(schema[k].dict, out[k].dict)
          ELSE IF k = "items"
          THEN /\ IsList(out[k])
               /\ Len(out[k].list) = Len(schema[k].list)
               /\ \A i \in DOMAIN schema[k].list :
                      KeepsOtherKeys(schema[k].list[i].dict, out[k].list[i].dict)
          ELSE out[k] = schema[k]

\* C21: schema cleaning is complete and lossless.  For every schema with
\* nested object properties and array item schemas, what _convert_schema
\* returns holds no $schema or additionalProperties keyword at any nesting
\* level, and holds every other key (type, properties, required, items,
\* enum, description) with the value it had, at the same position.
SchemaCleaningCompleteLossless ==
    passes >= 1 =>
        /\ ~HasUnsupportedKeyword(cleaned_once.dict)
        /\ KeepsOtherKeys(input_schema.dict, cleaned_once.dict)

RECURSIVE CleanedThroughout(_, _)
\* out is schema without its unsupported keys, with the schema of every
\* property and a single item schema cleaned the same way, and every other
\* value, a list of schemas under items included, as it was
CleanedThroughout(schema, out) ==
    /\ DOMAIN out = DOMAIN schema \ UNSUPPORTED
    /\ \A k \in DOMAIN out :
          IF k = "properties"
          THEN /\ IsDict(out[k])
               /\ DOMAIN out[k].dict = DOMAIN schema[k].dict
               /\ \A name \in DOMAIN schema[k].dict :
                      CleanedThroughout(schema[k].dict[name].dict,
                                        out[k].dict[name].dict)
          ELSE IF k = "items" /\ IsDict(schema[k])
          THEN IsDict(out[k]) /\ CleanedThroughout(schema[k].dict, out[k].dict)
          ELSE out[k] = schema[k]

\* C21, amended: what _convert_schema returns holds no $schema or
\* additionalProperties keyword at any nesting level reached through
\* properties and through an items that holds a single schema, and holds
\* every other key with the value it had, at the same position; a list of
\* schemas under items is kept as it is.
SchemaCleaningThroughDictItems ==
    passes >= 1 => CleanedThroughout(input_schema.dict, cleaned_once.dict)

\* an array of closed objects with an enum property was cleaned: the
\* unsupported keys of both nested levels are gone, enum and required stay
ArrayOfClosedObjectsCleaned ==
    /\ passes = 1
    /\ input_schema =
           Dict(ArrayOf(ClosedObjectOf(
               ("type" :> Str("string")) @@ ("enum" :> List(<<"tcp", "udp">>))
               @@ ("additionalProperties" :> Bool(FALSE)))))
    /\ cleaned =
           Dict(ArrayOf(ObjectOf(
               ("type" :> Str("string")) @@ ("enum" :> List(<<"tcp", "udp">>)))))

\* C22: auto-save on exit.  When the loop ends during input collection
\* (interrupt, end of input, or the words exit / quit) it terminates without
\* starting a turn; if the history is not empty a structured record holding
\* the complete history and the active provider tag is written under the
\* default session name, and if the history is empty no record is written.
\* Nothing happens after the loop has ended.
AutoSaveOnExit ==
    [][ /\ (pc = "input" /\ pc' = "exited") =>
              /\ turns' = turns
              /\ messages' = messages
              /\ in_flight' = 0
              /\ md_files' = md_files
              /\ \A n \in SessionNames \ {DefaultSessionName} :
                     json_files'[n] = json_files[n]
              /\ IF messages # <<>>
                 THEN /\ Exists(json_files', DefaultSessionName)
                      /\ load_session_json(json_files'[DefaultSessionName])
                             = <<messages, provider>>
                 ELSE json_files' = json_files
        /\ pc' = "exited" => pc = "input" \/ pc = "exited"
        /\ pc = "exited" => pc' = "exited" /\ messages' = messages
                            /\ json_files' = json_files
      ]_vars

\* the loop ended after a turn with a tool call and a follow-up, and the
\* record written on the way out loads back to the whole history
ExitedAfterToolTurn ==
    /\ pc = "exited"
    /\ outcome = "tools_done"
    /\ Len(messages) >= 4
    /\ load_session_json(json_files[DefaultSessionName]) = <<messages, provider>>

\* C23: saving does not change the conversation.  /save leaves the history
\* as it was before the command, whether the summary generation returns or
\* fails; the summary prompt goes to the model in a copy of the history with
\* the prompt at its end, and is neither appended to the history nor
\* written into the structured record.
SaveLeavesHistory ==
    [][ /\ (pc = "input" /\ pc' = "summary") =>
              /\ messages' = messages
              /\ summary_messages' = Append(messages, SummaryPromptMessage)
              /\ load_session_json(json_files'[save_name']) = <<messages, provider>>
        /\ pc = "summary" =>
              /\ messages' = messages
              /\ json_files' = json_files
              /\ load_session_json(json_files[save_name]) = <<messages, provider>>
        /\ (pc' = "summary" \/ pc = "summary") =>
              \A i \in DOMAIN messages' : messages'[i] # SummaryPromptMessage
      ]_vars

\* after a turn with a tool call, /save wrote the record and the failure
\* placeholder as the summary, and the history is the one the record holds
SavedWithFailedSummary ==
    /\ pc = "input"
    /\ outcome = "saved"
    /\ turns = 1
    /\ CountToolCallParts(messages) > 0
    /\ md_files[save_name] = Str("*Summary generation failed: rate limit*")
    /\ load_session_json(json_files[save_name]) = <<messages, provider>>

\* C24: latent follow-up tool calls are never executed by a later turn on
\* their own.  In any sequence of turns, every call_tool a turn issues is the
\* next tool call of that turn's own first response; a turn starts with no
\* call_tool, whatever tool calls the previous follow-up left in the
\* history, leaves the history before it as it was, and ends with as many
\* tool-result entries added as it issued calls, so that the calls of an
\* earlier follow-up have no tool-result entry unless the model issued them
\* again in a first response.
LatentCallsStayLatent ==
    [][ /\ (exec_log' # exec_log /\ exec_log' # <<>>) =>
              /\ pc \in {"first", "tool"}
              /\ Len(exec_log') <= Len(response'.tool_calls)
              /\ exec_log' = Append(exec_log,
                     CallIssued(response'.tool_calls[Len(exec_log')]))
        /\ (pc = "input" /\ pc' # "input" /\ pc' # "exited") =>
              /\ pc' = "first"
              /\ exec_log' = <<>>
              /\ turn_start' = messages
              /\ ToolResultEntries(messages') = ToolResultEntries(messages)
              /\ HasToolCalls(followup) /\ outcome = "tools_done" =>
                     messages[Len(messages)] = MakeAssistantMessage(provider, followup)
        /\ InTurn' => IsPrefix(turn_start', messages')
        /\ (InTurn' /\ pc' \in {"followup", "input"}) =>
              Len(ToolResultEntries(SubSeq(messages', Len(turn_start') + 1,
                                           Len(messages')))) = Len(exec_log')
      ]_vars

\* the follow-up of the first turn left a tool call in the history; the
\* second turn was a text exchange that executed nothing, and that call has
\* no tool-result entry
LatentCallSurvivedTextTurn ==
    /\ pc = "input"
    /\ outcome = "text"
    /\ turns = 2
    /\ HasToolCalls(followup)
    /\ exec_log = <<>>
    /\ turn_start[Len(turn_start)] = MakeAssistantMessage(provider, followup)
    /\ IsPrefix(turn_start, messages)
    /\ Len(ToolResultEntries(messages)) < CountToolCallParts(messages)



\* C25: formatting the tools for a generate_response leaves the registry's
\* cached snapshot as it was: after any number of generate_response calls
\* of turns and of /save, under either provider, the cached list (each
\* entry's name, description and inputSchema, nested schemas included) is
\* equal to the list the first fetch built
SnapshotUnmodified ==
    /\ tools_cache = first_listed
    /\ \A i \in DOMAIN tools_cache.list :
           /\ tools_cache.list[i].name = first_listed.list[i].name
           /\ tools_cache.list[i].description = first_listed.list[i].description
           /\ tools_cache.list[i].inputSchema = first_listed.list[i].inputSchema

\* the Gemini adapter formatted the tools three times (two calls of a tool
\* turn, then the one of /save) and the snapshot still holds a schema with
\* unsupported keywords, which cleaning gives back changed
SnapshotFormattedThrice ==
    /\ provider = "gemini"
    /\ pc = "summary"
    /\ turns >= 1
    /\ gen_calls = 2
    /\ \E i \in DOMAIN tools_cache.list :
           /\ HasUnsupportedKeyword(tools_cache.list[i].inputSchema)
           /\ convert_schema(tools_cache.list[i].inputSchema)
                  # tools_cache.list[i].inputSchema
           /\ ~HasUnsupportedKeyword(convert_schema(tools_cache.list[i].inputSchema))

====
